---- MODULE Spec2Model ----
(***************************************************************************)
(* Model of the MLops scoring service: preprocess.py (feature pipeline)    *)
(* and predict.py (scoring and diagnostics).                               *)
(*                                                                         *)
(* A run is one invocation of one script's main().  The file system the    *)
(* run finds (input CSV, features.json, medians.json, processed.csv,       *)
(* model.pkl, threshold.txt) is chosen by Init; the actions are the        *)
(* program points of main() and of preprocess().                           *)
(*                                                                         *)
(* Numbers: a numeric cell Num(n, h) stands for n + h/2; inputs are whole   *)
(* (h = 0), the half appears only as the median of an even count.          *)
(* dist_km is held rounded to whole kilometres.  Probabilities are held in *)
(* hundredths; a threshold is the exact decimal num/den.                   *)
(***************************************************************************)
EXTENDS Integers, Sequences, FiniteSets, TLC

VARIABLES prog, pc, err, files, str_keeps_na, out, diag,
          feature_list, df, ids, model, proba, thresh, binary_pred

\* prog: the script this run executes; pc: its program point; err: the
\* exception that ended it.  files: what the run finds on disk; out: the
\* files the run has written; diag: the exceptions the diagnostics handlers
\* swallowed.  str_keeps_na: whether the installed pandas keeps a missing
\* value missing under Series.astype(str) (pandas 3) or prints it as the
\* text "nan" (pandas 1 and 2); the repository pins no version.  The rest
\* are the locals of main() and preprocess().
env == <<prog, files, str_keeps_na>>
predLocals == <<ids, model, proba, thresh, binary_pred, diag>>
vars == <<prog, pc, err, files, str_keeps_na, out, diag,
          feature_list, df, ids, model, proba, thresh, binary_pred>>

\* ---------------------------------------------------------------- bounds
\* The most rows of an input file of preprocess.py, and of a processed file
\* of predict.py.
MaxRows == 4
MaxScoredRows == 2

\* ---------------------------------------------------------------- cells
Null == [k |-> "null"]
Num(n, h) == [k |-> "num", n |-> n, h |-> h]
Whole(n) == Num(n, 0)
Str(s) == [k |-> "str", s |-> s]

IsNull(c) == c.k = "null"
IsNum(c) == c.k = "num"
IsStr(c) == c.k = "str"

Range(s) == {s[i] : i \in DOMAIN s}

Missing == [exists |-> FALSE]
File(c) == [exists |-> TRUE, content |-> c]

\* ---------------------------------------------------------------- frames
\* A DataFrame: n rows, the column index in order, and the cells by column.
Frame(n, cols, data) == [n |-> n, cols |-> cols, data |-> data]

HasCol(f, c) == c \in DOMAIN f.data

\* df[c] = vals: replaces the column in place, or appends a new one.
SetCol(f, c, vals) ==
    Frame(f.n,
          IF HasCol(f, c) THEN f.cols ELSE Append(f.cols, c),
          [x \in DOMAIN f.data \cup {c} |-> IF x = c THEN vals ELSE f.data[x]])

Const(n, v) == [i \in 1..n |-> v]

\* df[cols]: the listed columns in the listed order (names may repeat).
Project(f, cols) ==
    Frame(f.n, cols, [x \in Range(cols) |-> f.data[x]])

\* df.drop(columns=cs)
DropCols(f, cs) ==
    Frame(f.n,
          SelectSeq(f.cols, LAMBDA c : c \notin cs),
          [x \in DOMAIN f.data \ cs |-> f.data[x]])

\* ------------------------------------------------------- pd.to_datetime
\* The lexical fields of the timestamp texts the inputs use.
DateFields ==
    [s \in {"2023-07-15T23:30:00", "2023-07-17T08:05:00"} |->
        IF s = "2023-07-15T23:30:00"
        THEN [y |-> 2023, m |-> 7, d |-> 15, H |-> 23]
        ELSE [y |-> 2023, m |-> 7, d |-> 17, H |-> 8]]

MonthOffset == <<0, 3, 2, 5, 0, 3, 5, 1, 4, 6, 2, 4>>

\* Series.dt.dayofweek: Monday = 0 .. Sunday = 6 (Gregorian calendar).
DayOfWeek(y, m, d) ==
    LET yy == IF m < 3 THEN y - 1 ELSE y
        sun0 == (yy + (yy \div 4) - (yy \div 100) + (yy \div 400)
                 + MonthOffset[m] + d) % 7
    IN  (sun0 + 6) % 7

NaT == [k |-> "nat"]

\* pd.to_datetime(cell, errors="coerce")
ToDatetime(c) ==
    IF IsStr(c) /\ c.s \in DOMAIN DateFields
    THEN LET f == DateFields[c.s]
         IN  [k |-> "ts", hour |-> f.H, dow |-> DayOfWeek(f.y, f.m, f.d)]
    ELSE NaT

SentinelTime == -1
WeekendFrom == 5

\* dt.dt.hour.fillna(-1).astype(int)
HourOf(c) == LET t == ToDatetime(c)
             IN IF t.k = "ts" THEN Whole(t.hour) ELSE Whole(SentinelTime)
\* dt.dt.dayofweek.fillna(-1).astype(int)
DowOf(c) == LET t == ToDatetime(c)
            IN IF t.k = "ts" THEN Whole(t.dow) ELSE Whole(SentinelTime)
\* (df["dow"] >= 5).astype(int)
WeekendOf(d) == IF d.n >= WeekendFrom THEN Whole(1) ELSE Whole(0)

\* Lines 58-61 fail on a frame without transaction_time: to_datetime(None)
\* is None, which has no .dt accessor.
TimeRaises(f) == ~HasCol(f, "transaction_time")

TimeFeaturesOf(f) ==
    LET tt  == f.data["transaction_time"]
        f1  == SetCol(f, "hour", [i \in 1..f.n |-> HourOf(tt[i])])
        f2  == SetCol(f1, "dow", [i \in 1..f.n |-> DowOf(tt[i])])
    IN  SetCol(f2, "is_weekend", [i \in 1..f.n |-> WeekendOf(f2.data["dow"][i])])

\* ------------------------------------------------------- numeric parsing
\* float(text) / pd.to_numeric(text) for the numeric texts the inputs use.
NumericText == [s \in {"0", "20", "90"} |->
                  IF s = "0" THEN 0 ELSE IF s = "20" THEN 20 ELSE 90]

ParsesAsNumber(c) == IsNum(c) \/ (IsStr(c) /\ c.s \in DOMAIN NumericText)

\* pd.to_numeric(cell, errors="coerce"): NaN for what does not parse.
ToNumeric(c) ==
    IF IsNum(c) THEN c
    ELSE IF IsStr(c) /\ c.s \in DOMAIN NumericText THEN Whole(NumericText[c.s])
    ELSE Null

\* ------------------------------------------------------------- haversine
EarthRadiusKm == 6371

GeoCols == <<"lat", "lon", "merchant_lat", "merchant_lon">>

\* Series.astype(float) raises ValueError on a text that is no number.
AsFloatRaises(col) == \E i \in DOMAIN col : IsStr(col[i]) /\ ~ParsesAsNumber(col[i])

\* haversine() fails when an argument is None (AttributeError) or holds a
\* non-numeric text (ValueError).
GeoArgRaises(f, i) ==
    \/ ~HasCol(f, GeoCols[i])
    \/ AsFloatRaises(f.data[GeoCols[i]])

GeoRaises(f) == \E i \in DOMAIN GeoCols : GeoArgRaises(f, i)

\* The exception of the first failing conversion of lines 45-48.
GeoError(f) ==
    LET i == CHOOSE j \in DOMAIN GeoCols :
                 GeoArgRaises(f, j) /\ \A k \in 1..(j - 1) : ~GeoArgRaises(f, k)
    IN  IF HasCol(f, GeoCols[i]) THEN "ValueError" ELSE "AttributeError"

Abs(x) == IF x < 0 THEN -x ELSE x

\* 2 * sin(deg / 2)^2 for deg a multiple of 90 (the coordinates the inputs use)
TwiceSinSqHalf(deg) ==
    LET q == (Abs(deg) \div 90) % 4
    IN  IF q = 0 THEN 0 ELSE IF q = 2 THEN 2 ELSE 1

\* cos(deg) for deg a multiple of 90
Cos(deg) ==
    LET q == (Abs(deg) \div 90) % 4
    IN  IF q = 0 THEN 1 ELSE IF q = 2 THEN -1 ELSE 0

\* 6371 * 2 * asin(sqrt(a)) rounded to whole km, for 2a in {0, 1, 2}:
\* asin(0) = 0, asin(sqrt(1/2)) = pi/4, asin(1) = pi/2.
ArcKm(twiceA) ==
    IF twiceA = 0 THEN 0
    ELSE IF twiceA = 1 THEN (EarthRadiusKm * 31416 + 10000) \div 20000
    ELSE (EarthRadiusKm * 31416 + 5000) \div 10000

\* haversine() of one row; NaN when a coordinate is missing.
HaversineCell(a1, o1, a2, o2) ==
    LET lat1 == ToNumeric(a1)  lon1 == ToNumeric(o1)
        lat2 == ToNumeric(a2)  lon2 == ToNumeric(o2)
    IN  IF IsNull(lat1) \/ IsNull(lon1) \/ IsNull(lat2) \/ IsNull(lon2)
        THEN Null
        ELSE LET twiceA == TwiceSinSqHalf(lat2.n - lat1.n)
                           + Cos(lat1.n) * Cos(lat2.n) * TwiceSinSqHalf(lon2.n - lon1.n)
             IN  Whole(ArcKm(twiceA))

GeoDistanceOf(f) ==
    SetCol(f, "dist_km",
           [i \in 1..f.n |-> HaversineCell(f.data["lat"][i], f.data["lon"][i],
                                           f.data["merchant_lat"][i],
                                           f.data["merchant_lon"][i])])

\* ------------------------------------------------------------ imputation
NumericCols == <<"amount", "population_city", "hour", "dow", "is_weekend", "dist_km">>

\* The valid (non-NaN) values of a coerced column, as a sequence.
ValidValues(col) ==
    LET ok == SelectSeq(col, LAMBDA c : ~IsNull(c))
    IN  [i \in DOMAIN ok |-> ok[i].n]

\* Mutant of MedianOf: the middle of the values in file order, unsorted.
MedianOfUnsorted(vals) ==
    LET n == Len(vals)
    IN  IF n % 2 = 1 THEN Whole(vals[(n + 1) \div 2])
        ELSE LET sum == vals[n \div 2] + vals[n \div 2 + 1]
             IN  Num(sum \div 2, sum % 2)

\* Series.median(): the middle value, or the mean of the two middle values.
MedianOf(vals) ==
    LET s == SortSeq(vals, LAMBDA a, b : a < b)
        n == Len(s)
    IN  IF n % 2 = 1 THEN Whole(s[(n + 1) \div 2])
        ELSE LET sum == s[n \div 2] + s[n \div 2 + 1]
             IN  Num(sum \div 2, sum % 2)

DefaultMedian == 0

\* float(series.median()) if series.count() > 0 else 0.0
MedianVal(series) ==
    IF Len(ValidValues(series)) > 0 THEN MedianOf(ValidValues(series))
    ELSE Whole(DefaultMedian)

\* One pass of the loop body of lines 77-82 for column c.
ImputeCol(f, c) ==
    LET g == IF HasCol(f, c) THEN f ELSE SetCol(f, c, Const(f.n, Null))
        series == [i \in 1..g.n |-> ToNumeric(g.data[c][i])]
        m == MedianVal(series)
    IN  SetCol(g, c, [i \in 1..g.n |-> IF IsNull(series[i]) THEN m ELSE series[i]])

RECURSIVE ImputeFrom(_, _)
ImputeFrom(f, i) ==
    IF i > Len(NumericCols) THEN f
    ELSE ImputeFrom(ImputeCol(f, NumericCols[i]), i + 1)

ImputeNumericOf(f) == ImputeFrom(f, 1)

\* ----------------------------------------------------------- categorical
CatCols == <<"cat_id", "gender">>

\* A column of numbers with a gap is float64; without a gap, or mixed with
\* text, its numbers print as integers.
IsFloatCol(col) ==
    /\ \E i \in DOMAIN col : IsNull(col[i])
    /\ \A i \in DOMAIN col : ~IsStr(col[i])
    /\ \E i \in DOMAIN col : IsNum(col[i])

\* str(x) of one cell under Series.astype(str): NaN prints as "nan", unless
\* the library keeps it missing.
AsStr(c, isFloat, keepsNa) ==
    IF IsStr(c) THEN c
    ELSE IF IsNum(c) THEN Str(IF isFloat THEN ToString(c.n) \o ".0" ELSE ToString(c.n))
    ELSE IF keepsNa THEN Null ELSE Str("nan")

\* .fillna("na")
FillNa(c) == IF IsNull(c) THEN Str("na") ELSE c

\* df[col].astype(str).fillna("na")
CatPresent(col, keepsNa) ==
    [i \in DOMAIN col |-> FillNa(AsStr(col[i], IsFloatCol(col), keepsNa))]

FillCat(f, c, keepsNa) ==
    IF ~HasCol(f, c) THEN SetCol(f, c, Const(f.n, Str("na")))
    ELSE SetCol(f, c, CatPresent(f.data[c], keepsNa))

FillCategoricalOf(f, keepsNa) ==
    FillCat(FillCat(f, CatCols[1], keepsNa), CatCols[2], keepsNa)

\* -------------------------------------------------------------- selection
SourceCols == {"lat", "lon", "merchant_lat", "merchant_lon", "transaction_time"}

\* Line 93: the coordinate and timestamp columns are dropped.
DropSourceOf(f) == DropCols(f, SourceCols \cap DOMAIN f.data)

\* Lines 96-98: a feature that is no column becomes the constant 0.
RECURSIVE EnsureFrom(_, _, _)
EnsureFrom(f, fl, i) ==
    IF i > Len(fl) THEN f
    ELSE EnsureFrom(IF HasCol(f, fl[i]) THEN f ELSE SetCol(f, fl[i], Const(f.n, Whole(0))),
                    fl, i + 1)

EnsureFeaturesOf(f, fl) == EnsureFrom(f, fl, 1)

\* Mutant of SelectedCols: the wanted columns in the frame's own order.
SelectedColsFrameOrder(f, fl) ==
    SelectSeq(f.cols, LAMBDA c : c \in {"id"} \cup Range(fl))

\* Lines 101-102: ["id"] + feature_list, restricted to existing columns.
SelectedCols(f, fl) == SelectSeq(<<"id">> \o fl, LAMBDA c : HasCol(f, c))

SelectOf(f, fl) == Project(f, SelectedCols(f, fl))

\* ------------------------------------------------------- load_threshold
\* A text file is the sequence of its characters; a character that has no
\* escape in a string is written as its code point ("U+000B").
\* Whitespace: every character str.strip() removes (str.isspace()):
\* U+0009..U+000D, U+001C..U+001F, U+0020, U+0085, U+00A0, U+1680,
\* U+2000..U+200A, U+2028, U+2029, U+202F, U+205F, U+3000.
Whitespace ==
    { "\t", "\n", "U+000B", "\f", "\r",
      "U+001C", "U+001D", "U+001E", "U+001F", " ", "U+0085", "U+00A0", "U+1680",
      "U+2000", "U+2001", "U+2002", "U+2003", "U+2004", "U+2005", "U+2006",
      "U+2007", "U+2008", "U+2009", "U+200A",
      "U+2028", "U+2029", "U+202F", "U+205F", "U+3000" }

DigitVal == [c \in {"0", "1", "2", "3", "4", "5", "6", "7", "8", "9"} |->
               CASE c = "0" -> 0 [] c = "1" -> 1 [] c = "2" -> 2 [] c = "3" -> 3
                 [] c = "4" -> 4 [] c = "5" -> 5 [] c = "6" -> 6 [] c = "7" -> 7
                 [] c = "8" -> 8 [] OTHER -> 9]

RECURSIVE StripLeft(_)
StripLeft(t) == IF t # <<>> /\ Head(t) \in Whitespace THEN StripLeft(Tail(t)) ELSE t

RECURSIVE StripRight(_)
StripRight(t) ==
    IF t # <<>> /\ t[Len(t)] \in Whitespace THEN StripRight(SubSeq(t, 1, Len(t) - 1)) ELSE t

\* str.strip()
Strip(t) == StripRight(StripLeft(t))

\* The digits of t read as a decimal integer.
RECURSIVE DigitsValue(_)
DigitsValue(t) ==
    IF t = <<>> THEN 0
    ELSE 10 * DigitsValue(SubSeq(t, 1, Len(t) - 1)) + DigitVal[t[Len(t)]]

RECURSIVE Pow10(_)
Pow10(n) == IF n = 0 THEN 1 ELSE 10 * Pow10(n - 1)

NotANumber == [k |-> "nan"]
Decimal(num, den) == [k |-> "num", num |-> num, den |-> den]
ParseError == [k |-> "error"]

\* float(text) for plain decimal texts ([sign] digits [. digits]) and "nan";
\* anything else is a ValueError.  (Exponents, "inf" and digit separators
\* are outside the texts the inputs use.)
ParseFloat(t) ==
    LET signed == t # <<>> /\ t[1] \in {"+", "-"}
        body   == IF signed THEN Tail(t) ELSE t
        dots   == {i \in DOMAIN body : body[i] = "."}
        digits == SelectSeq(body, LAMBDA c : c # ".")
        places == IF dots = {} THEN 0 ELSE Len(body) - (CHOOSE i \in dots : TRUE)
    IN  IF [i \in DOMAIN body |-> IF body[i] \in {"N", "n"} THEN "n"
                                  ELSE IF body[i] \in {"A", "a"} THEN "a" ELSE body[i]]
             = <<"n", "a", "n">>
        THEN NotANumber
        ELSE IF /\ digits # <<>>
                /\ Cardinality(dots) <= 1
                /\ \A i \in DOMAIN digits : digits[i] \in DOMAIN DigitVal
        THEN Decimal((IF signed /\ t[1] = "-" THEN -1 ELSE 1) * DigitsValue(digits),
                     Pow10(places))
        ELSE ParseError

DefaultThreshold == Decimal(1, 2)

\* load_threshold(): the float of the stripped file, 0.5 when the file is
\* absent or float() raises.
LoadThreshold(file) ==
    IF file.exists
    THEN LET v == ParseFloat(Strip(file.content))
         IN  IF v = ParseError THEN DefaultThreshold ELSE v
    ELSE DefaultThreshold

\* proba >= thresh, proba in hundredths; any comparison with nan is False.
AtLeast(p, t) == t.k = "num" /\ p * t.den >= t.num * 100

\* (proba >= thresh).astype(int)
BinaryPred(scores, t) == [i \in DOMAIN scores |-> IF AtLeast(scores[i], t) THEN 1 ELSE 0]

\* ----------------------------------------------------------- importances
\* An estimator: its feature_importances_ attribute, when it has one.
Estimator(fi) == [fi |-> fi]
NoImportances == Missing

\* A model: predict_proba or only predict; named_steps (name, estimator
\* pairs in pipeline order) when it is a pipeline; its own
\* feature_importances_ otherwise; whether scoring raises.
Model(has_proba, steps, fi, scoring_raises) ==
    [has_proba |-> has_proba, named_steps |-> steps, fi |-> fi,
     scoring_raises |-> scoring_raises]

StepNames(steps) == {steps[i].name : i \in DOMAIN steps}
StepNamed(steps, name) == steps[CHOOSE i \in DOMAIN steps : steps[i].name = name].est

\* Line 95: named_steps.get("dummyclassifier", named_steps[next(iter(named_steps))]).
\* The default is evaluated first: on a pipeline without steps next() raises,
\* and the inner handler leaves final_estimator None.
PipelineEstimator(steps) ==
    IF steps = <<>> THEN Missing
    ELSE IF "dummyclassifier" \in StepNames(steps)
    THEN File(StepNamed(steps, "dummyclassifier"))
    ELSE File(steps[1].est)

\* Lines 92-99
FinalEstimator(m) ==
    IF m.named_steps.exists THEN PipelineEstimator(m.named_steps.content)
    ELSE File(Estimator(m.fi))

\* Lines 100-101: fi, or None.
ImportancesOf(m) ==
    LET e == FinalEstimator(m)
    IN  IF e.exists /\ e.content.fi.exists THEN e.content.fi ELSE Missing

TopN == 5

\* pd.Series(fi, index=feature_list) raises ValueError on a length mismatch.
SeriesRaises(fi, fl) == Len(fi) # Len(fl)

\* sort_values(ascending=False): the orders that are descending by score
\* (the default sort does not fix the order of equal scores).
DescendingOrders(fi) ==
    {p \in Permutations(1..Len(fi)) : \A i \in 1..(Len(fi) - 1) : fi[p[i]] >= fi[p[i + 1]]}

Min(a, b) == IF a < b THEN a ELSE b

\* .head(5), then the {name: float(score)} pairs in that order.
Top5(fi, fl, order) ==
    [i \in 1..Min(TopN, Len(fi)) |-> <<fl[order[i]], fi[order[i]]>>]

\* ---------------------------------------------------------------- inputs
InputCols == <<"id", "transaction_time", "amount", "population_city",
               "lat", "lon", "merchant_lat", "merchant_lon",
               "cat_id", "gender", "merch">>

Row(id, tt, amount, pop, lat, lon, mlat, mlon, cat, gender, merch) ==
    [c \in Range(InputCols) |->
        CASE c = "id" -> id
          [] c = "transaction_time" -> tt
          [] c = "amount" -> amount
          [] c = "population_city" -> pop
          [] c = "lat" -> lat
          [] c = "lon" -> lon
          [] c = "merchant_lat" -> mlat
          [] c = "merchant_lon" -> mlon
          [] c = "cat_id" -> cat
          [] c = "gender" -> gender
          [] OTHER -> merch]

\* The raw rows the input file is made of, in file order.
RawRows ==
    << Row(Whole(1), Str("2023-07-15T23:30:00"), Whole(10), Whole(1000),
          Whole(0), Whole(0), Whole(0), Whole(0),
          Str("grocery"), Str("F"), Str("shop")),
      Row(Whole(2), Str("not a date"), Null, Str("n/a"),
          Whole(0), Whole(0), Whole(0), Whole(180),
          Null, Null, Null),
      Row(Whole(3), Null, Str("20"), Null,
          Null, Whole(0), Whole(90), Whole(0),
          Whole(7), Str("M"), Str("kiosk")),
      Row(Whole(4), Str("2023-07-17T08:05:00"), Whole(25), Whole(500),
          Whole(0), Str("90"), Whole(0), Whole(0),
          Null, Str("F"), Str("shop")),
      Row(Whole(5), Str("2023-07-15T23:30:00"), Whole(10), Whole(500),
          Whole(0), Str("east"), Whole(0), Whole(90),
          Str("grocery"), Null, Str("kiosk")) >>

\* The files of 1..n of the raw rows, kept in file order.
RowSeqs(n) ==
    UNION { { [i \in 1..k |-> RawRows[ix[i]]] :
                ix \in { s \in [1..k -> DOMAIN RawRows] :
                            \A i \in 1..(k - 1) : s[i] < s[i + 1] } }
            : k \in 1..n }

\* The columns a deployment may leave out of the input.
OptionalCols == {"id", "transaction_time", "amount", "cat_id", "merch"}
GeoAbsences == { {}, {"lat"}, {"lon"}, {"merchant_lat"}, {"merchant_lon"},
                 {"lat", "lon", "merchant_lat", "merchant_lon"} }
Absences == { a \cup g : a \in SUBSET OptionalCols, g \in GeoAbsences }

\* pd.read_csv: the frame of the rows, without the absent columns.
RawFrame(rows, absent) ==
    Frame(Len(rows),
          SelectSeq(InputCols, LAMBDA c : c \notin absent),
          [c \in Range(InputCols) \ absent |-> [i \in 1..Len(rows) |-> rows[i][c]]])

RawFrames == { RawFrame(r, a) : r \in RowSeqs(MaxRows), a \in Absences }

FeatureLists ==
    { <<"amount", "hour", "dow", "is_weekend", "dist_km", "cat_id", "gender">>,
      <<"dist_km", "merch", "population_city", "amount">>,
      <<"amount", "lat", "transaction_time", "zip">>,
      <<"id", "gender">> }

MediansArtifacts == { Missing, File([c \in {"amount"} |-> Whole(42)]) }

NoFrame == Frame(0, <<>>, <<>>)

NoFiles == [input |-> Missing, features |-> Missing, medians |-> Missing,
            processed |-> Missing, model |-> Missing, threshold |-> Missing]

NoOutput == [processed |-> Missing, submission |-> Missing, binary |-> Missing,
             importances |-> Missing, plot |-> Missing]

Written == {f \in DOMAIN out : out[f].exists}

InitLocals ==
    /\ err = "none"
    /\ out = NoOutput
    /\ diag = {}
    /\ feature_list = <<>>
    /\ df = NoFrame
    /\ ids = <<>>
    /\ model = Missing
    /\ proba = Missing
    /\ thresh = Missing
    /\ binary_pred = Missing

\* ------------------------------------------------------ preprocess.main
InitPreprocess ==
    /\ prog = "preprocess"
    /\ str_keeps_na \in BOOLEAN
    /\ \E inp \in {Missing} \cup {File(f) : f \in RawFrames},
          fl \in {Missing} \cup {File(l) : l \in FeatureLists},
          med \in MediansArtifacts :
          files = [NoFiles EXCEPT !.input = inp, !.features = fl, !.medians = med]
    /\ pc = "import"
    /\ InitLocals

Raise(e) == /\ pc' = "raised"
            /\ err' = e

\* Lines 34-40: the imports run before main(), before work/ is made;
\* without numpy or pandas installed the import of line 39 or 40 ends the
\* run.
PreImport ==
    /\ prog = "preprocess" /\ pc = "import"
    /\ \/ pc' = "start" /\ err' = err
       \/ Raise("ModuleNotFoundError")
    /\ UNCHANGED <<env, out, feature_list, df, predLocals>>

\* Mutant of PreStart: the output file is opened for writing before the
\* input is looked for.
PreStartOpensOutput ==
    /\ prog = "preprocess" /\ pc = "start"
    /\ out' = [out EXCEPT !.processed = File(NoFrame)]
    /\ IF files.input.exists
       THEN pc' = "load_features" /\ err' = err
       ELSE Raise("FileNotFoundError")
    /\ UNCHANGED <<env, feature_list, df, predLocals>>

\* Lines 106-112: the output directory is made, the input file looked for.
PreStart ==
    /\ prog = "preprocess" /\ pc = "start"
    /\ IF files.input.exists
       THEN pc' = "load_features" /\ err' = err
       ELSE Raise("FileNotFoundError")
    /\ UNCHANGED <<env, out, feature_list, df, predLocals>>

\* Lines 115-116: features.json is opened and parsed.
PreLoadFeatures ==
    /\ prog = "preprocess" /\ pc = "load_features"
    /\ IF files.features.exists
       THEN /\ feature_list' = files.features.content
            /\ pc' = "read_csv" /\ err' = err
       ELSE /\ Raise("FileNotFoundError")
            /\ feature_list' = feature_list
    /\ UNCHANGED <<env, out, df, predLocals>>

\* Lines 118-119: df_raw = pd.read_csv(...); preprocess(df_raw.copy(), ...)
PreReadCsv ==
    /\ prog = "preprocess" /\ pc = "read_csv"
    /\ df' = files.input.content
    /\ pc' = "time_features"
    /\ UNCHANGED <<env, err, out, feature_list, predLocals>>

\* Lines 58-61
TimeFeatures ==
    /\ prog = "preprocess" /\ pc = "time_features"
    /\ IF TimeRaises(df)
       THEN Raise("AttributeError") /\ df' = df
       ELSE /\ df' = TimeFeaturesOf(df)
            /\ pc' = "geo_distance" /\ err' = err
    /\ UNCHANGED <<env, out, feature_list, predLocals>>

\* Lines 64-66
GeoDistance ==
    /\ prog = "preprocess" /\ pc = "geo_distance"
    /\ IF GeoRaises(df)
       THEN /\ Raise(GeoError(df))
            /\ df' = df
       ELSE /\ df' = GeoDistanceOf(df)
            /\ pc' = "impute" /\ err' = err
    /\ UNCHANGED <<env, out, feature_list, predLocals>>

\* Lines 68-82
ImputeNumeric ==
    /\ prog = "preprocess" /\ pc = "impute"
    /\ df' = ImputeNumericOf(df)
    /\ pc' = "fill_categorical"
    /\ UNCHANGED <<env, err, out, feature_list, predLocals>>

\* Lines 84-90
FillCategorical ==
    /\ prog = "preprocess" /\ pc = "fill_categorical"
    /\ df' = FillCategoricalOf(df, str_keeps_na)
    /\ pc' = "drop_source"
    /\ UNCHANGED <<env, err, out, feature_list, predLocals>>

\* Line 93
DropSource ==
    /\ prog = "preprocess" /\ pc = "drop_source"
    /\ df' = DropSourceOf(df)
    /\ pc' = "ensure_features"
    /\ UNCHANGED <<env, err, out, feature_list, predLocals>>

\* Lines 96-98
EnsureFeatures ==
    /\ prog = "preprocess" /\ pc = "ensure_features"
    /\ df' = EnsureFeaturesOf(df, feature_list)
    /\ pc' = "select"
    /\ UNCHANGED <<env, err, out, feature_list, predLocals>>

\* Lines 101-102: preprocess() returns df[cols].
SelectColumns ==
    /\ prog = "preprocess" /\ pc = "select"
    /\ df' = SelectOf(df, feature_list)
    /\ pc' = "write"
    /\ UNCHANGED <<env, err, out, feature_list, predLocals>>

\* Line 121: df_processed.to_csv("work/processed.csv")
PreWrite ==
    /\ prog = "preprocess" /\ pc = "write"
    /\ out' = [out EXCEPT !.processed = File(df)]
    /\ pc' = "done"
    /\ UNCHANGED <<env, err, feature_list, df, predLocals>>

NextPreprocess ==
    \/ PreImport \/ PreStart \/ PreLoadFeatures \/ PreReadCsv
    \/ TimeFeatures \/ GeoDistance \/ ImputeNumeric \/ FillCategorical
    \/ DropSource \/ EnsureFeatures \/ SelectColumns \/ PreWrite

\* ---------------------------------------------------------- predict.main
\* The processed frames predict.py may find: the listed feature columns,
\* with or without the id column (ids 101, 102, ...).
ProcessedFrame(n, withId, cols) ==
    Frame(n,
          IF withId THEN <<"id">> \o cols ELSE cols,
          [c \in Range(cols) \cup (IF withId THEN {"id"} ELSE {}) |->
              [i \in 1..n |-> IF c = "id" THEN Whole(100 + i) ELSE Whole(0)]])

PredictFeatureLists ==
    { <<"amount", "hour", "dow", "is_weekend", "dist_km", "cat_id">>,
      <<"amount", "dist_km">> }

ProcessedFrames ==
    { ProcessedFrame(n, w, l) : n \in 1..MaxScoredRows, w \in BOOLEAN, l \in PredictFeatureLists }

Step(name, fi) == [name |-> name, est |-> Estimator(fi)]

Scores6 == <<30, 5, 60, 10, 25, 40>>
Scores2 == <<70, 70>>

Models ==
    { Model(TRUE, Missing, File(Scores6), FALSE),
      Model(TRUE, Missing, File(Scores2), FALSE),
      Model(FALSE, Missing, NoImportances, FALSE),
      Model(TRUE, Missing, NoImportances, TRUE),
      Model(TRUE, File(<<Step("scaler", NoImportances), Step("rf", File(Scores6))>>),
            NoImportances, FALSE),
      Model(TRUE, File(<<Step("selector", File(Scores2)), Step("lr", NoImportances)>>),
            NoImportances, FALSE),
      Model(TRUE, File(<<Step("scaler", NoImportances),
                         Step("dummyclassifier", NoImportances)>>),
            NoImportances, FALSE),
      Model(TRUE, File(<<Step("rf", File(Scores6))>>), NoImportances, FALSE),
      Model(TRUE, File(<<>>), NoImportances, FALSE) }

ThresholdTexts ==
    { <<"0", ".", "7">>, <<" ", "0", ".", "5", "\n">>, <<"1", ".", "5">>,
      <<"-", "1">>, <<"a", "b", "c">>, <<>>, <<"0", ".", "3", " ", "0", ".", "9">>,
      <<"n", "a", "n">>, <<"U+000B", "0", ".", "7", "\f">>,
      <<"0", ".", "4", "U+00A0">> }

\* The probabilities and labels the opaque model may return, in hundredths.
Probabilities == {40, 50, 60, 100}
Labels == {0, 100}

InitPredict ==
    /\ prog = "predict"
    /\ str_keeps_na = FALSE
    /\ \E pf \in {Missing} \cup {File(f) : f \in ProcessedFrames},
          fl \in {Missing} \cup {File(l) : l \in PredictFeatureLists},
          m \in {Missing} \cup {File(x) : x \in Models},
          t \in {Missing} \cup {File(x) : x \in ThresholdTexts} :
          files = [NoFiles EXCEPT !.processed = pf, !.features = fl,
                                  !.model = m, !.threshold = t]
    /\ pc = "import"
    /\ InitLocals

\* Lines 24-31: the imports run before main(), outside every try block;
\* without joblib, numpy, pandas or matplotlib installed the import of line
\* 28, 29, 30 or 31 ends the run.
PredImport ==
    /\ prog = "predict" /\ pc = "import"
    /\ \/ pc' = "start" /\ err' = err
       \/ Raise("ModuleNotFoundError")
    /\ UNCHANGED <<env, out, feature_list, df, predLocals>>

\* Lines 48-55
PredStart ==
    /\ prog = "predict" /\ pc = "start"
    /\ IF files.processed.exists
       THEN pc' = "load" /\ err' = err
       ELSE Raise("FileNotFoundError")
    /\ UNCHANGED <<env, out, feature_list, df, predLocals>>

\* Lines 58-60
PredLoad ==
    /\ prog = "predict" /\ pc = "load"
    /\ df' = files.processed.content
    /\ IF files.features.exists
       THEN /\ feature_list' = files.features.content
            /\ pc' = "extract" /\ err' = err
       ELSE /\ Raise("FileNotFoundError")
            /\ feature_list' = feature_list
    /\ UNCHANGED <<env, out, predLocals>>

\* np.arange(len(df))
Arange(n) == [i \in 1..n |-> Whole(i - 1)]

\* Lines 63-64: df[feature_list] raises KeyError on an unknown column.
PredExtract ==
    /\ prog = "predict" /\ pc = "extract"
    /\ IF \E i \in DOMAIN feature_list : ~HasCol(df, feature_list[i])
       THEN Raise("KeyError") /\ ids' = ids
       ELSE /\ ids' = IF HasCol(df, "id") THEN df.data["id"] ELSE Arange(df.n)
            /\ pc' = "load_model" /\ err' = err
    /\ UNCHANGED <<env, out, feature_list, df, model, proba, thresh, binary_pred, diag>>

\* Line 67
PredLoadModel ==
    /\ prog = "predict" /\ pc = "load_model"
    /\ IF files.model.exists
       THEN /\ model' = files.model
            /\ pc' = "score" /\ err' = err
       ELSE /\ Raise("FileNotFoundError")
            /\ model' = model
    /\ UNCHANGED <<env, out, feature_list, df, ids, proba, thresh, binary_pred, diag>>

\* Lines 70-75: the model's output is opaque; one score per row.
PredScore ==
    /\ prog = "predict" /\ pc = "score"
    /\ IF model.content.scoring_raises
       THEN Raise("ValueError") /\ proba' = proba
       ELSE /\ \E p \in [1..df.n -> IF model.content.has_proba
                                     THEN Probabilities ELSE Labels] :
                  proba' = File(p)
            /\ pc' = "write_submission" /\ err' = err
    /\ UNCHANGED <<env, out, feature_list, df, ids, model, thresh, binary_pred, diag>>

Submission(i, t) == [id |-> i, target |-> t]

\* Mutant of PredWriteSubmission: the diagnostics run before the binary
\* CSV is written.
PredWriteSubmissionThenDiagnostics ==
    /\ prog = "predict" /\ pc = "write_submission"
    /\ out' = [out EXCEPT !.submission = File(Submission(ids, proba.content))]
    /\ pc' = "importances"
    /\ UNCHANGED <<env, err, feature_list, df, predLocals>>

\* Lines 78-79
PredWriteSubmission ==
    /\ prog = "predict" /\ pc = "write_submission"
    /\ out' = [out EXCEPT !.submission = File(Submission(ids, proba.content))]
    /\ pc' = "write_binary"
    /\ UNCHANGED <<env, err, feature_list, df, predLocals>>

\* Lines 82-85
PredWriteBinary ==
    /\ prog = "predict" /\ pc = "write_binary"
    /\ thresh' = File(LoadThreshold(files.threshold))
    /\ binary_pred' = File(BinaryPred(proba.content, LoadThreshold(files.threshold)))
    /\ out' = [out EXCEPT !.binary =
                  File(Submission(ids, BinaryPred(proba.content,
                                                  LoadThreshold(files.threshold))))]
    /\ pc' = "importances"
    /\ UNCHANGED <<env, err, feature_list, df, ids, model, proba, diag>>

\* An exception object: its class and that class's method resolution order.
Exc(cls, bases) == [cls |-> cls, mro |-> <<cls>> \o bases]

\* Exceptions whose class derives from Exception.
ValueError == Exc("ValueError", <<"Exception", "BaseException", "object">>)
RuntimeError == Exc("RuntimeError", <<"Exception", "BaseException", "object">>)
ExceptionGroup ==
    Exc("ExceptionGroup",
        <<"BaseExceptionGroup", "Exception", "BaseException", "object">>)

\* Exceptions whose class does not derive from Exception: BaseException
\* itself, its other built-in subclasses, asyncio's CancelledError and a
\* class the model object's library derives from BaseException.
BaseOnly ==
    { Exc("BaseException", <<"object">>),
      Exc("KeyboardInterrupt", <<"BaseException", "object">>),
      Exc("SystemExit", <<"BaseException", "object">>),
      Exc("GeneratorExit", <<"BaseException", "object">>),
      Exc("BaseExceptionGroup", <<"BaseException", "object">>),
      Exc("CancelledError", <<"BaseException", "object">>),
      Exc("LibraryAbort", <<"BaseException", "object">>) }

\* The handlers of lines 107-109 and 121-122 (and the inner one of lines
\* 96-97): except Exception catches e exactly when isinstance(e, Exception),
\* that is when Exception is in the method resolution order of e's class.
Swallows(e) == \E i \in DOMAIN e.mro : e.mro[i] = "Exception"

\* What a try block does with an exception raised inside it: swallowed, the
\* run goes on after the block; otherwise the run ends with the exception.
Handle(e, block, after) ==
    IF Swallows(e)
    THEN /\ diag' = diag \cup {block}
         /\ pc' = after
         /\ UNCHANGED err
    ELSE /\ Raise(e.cls)
         /\ UNCHANGED diag

\* Lines 88-109.  Besides the ValueError of line 103, an exception that
\* does not derive from Exception may be raised while the importances are
\* derived, lines 90-104 (by the feature_importances_ property of the model
\* object, or by a signal).
PredImportances ==
    /\ prog = "predict" /\ pc = "importances"
    /\ \/ \E e \in BaseOnly : Handle(e, "importances", "plot") /\ UNCHANGED out
       \/ LET fi == ImportancesOf(model.content)
          IN  IF ~fi.exists
              THEN UNCHANGED <<out, diag, err>> /\ pc' = "plot"
              ELSE IF SeriesRaises(fi.content, feature_list)
              THEN Handle(ValueError, "importances", "plot") /\ UNCHANGED out
              ELSE /\ \E order \in DescendingOrders(fi.content) :
                         out' = [out EXCEPT !.importances =
                                    File(Top5(fi.content, feature_list, order))]
                   /\ UNCHANGED <<diag, err>> /\ pc' = "plot"
    /\ UNCHANGED <<env, feature_list, df, ids, model, proba, thresh, binary_pred>>

\* What may be raised at lines 113-120 before the figure is saved: an
\* error of the rendering, deriving from Exception, or an exception that
\* does not.
PlotExceptions == {RuntimeError, ExceptionGroup} \cup BaseOnly

\* Lines 112-122: the histogram is saved, or an exception is raised.
PredPlot ==
    /\ prog = "predict" /\ pc = "plot"
    /\ \/ /\ out' = [out EXCEPT !.plot = File("histogram")]
          /\ UNCHANGED <<diag, err>> /\ pc' = "done"
       \/ \E e \in PlotExceptions : Handle(e, "plot", "done") /\ UNCHANGED out
    /\ UNCHANGED <<env, feature_list, df, ids, model, proba, thresh, binary_pred>>

NextPredict ==
    \/ PredImport \/ PredStart \/ PredLoad \/ PredExtract \/ PredLoadModel \/ PredScore
    \/ PredWriteSubmission \/ PredWriteBinary \/ PredImportances \/ PredPlot

\* ------------------------------------------------------------------ runs
Init == InitPreprocess \/ InitPredict
Next == NextPreprocess \/ NextPredict
Spec == Init /\ [][Next]_vars

\* ================================================================ claims
\* The frame preprocess.main read from input/test.csv.
In == files.input.content

InPreprocess == prog = "preprocess"
\* preprocess() has returned its frame.
Returned == InPreprocess /\ pc \in {"write", "done"}
AfterTime == InPreprocess /\ pc \in {"geo_distance", "impute", "fill_categorical", "drop_source"}
AfterImpute == InPreprocess /\ pc \in {"fill_categorical", "drop_source", "ensure_features",
                                       "select", "write", "done"}
AfterCategorical == InPreprocess /\ pc \in {"drop_source", "ensure_features", "select",
                                            "write", "done"}

\* ---- C1
\* C1 (as claimed): the frame returned by preprocess() has the column
\* sequence ["id"] + feature_list, whatever the input carries or lacks,
\* also when the input has no id column.
C1_ColumnsAlwaysIdPlusFeatures ==
    Returned => df.cols = <<"id">> \o feature_list

\* C1 (amended): the frame returned by preprocess() has the column sequence
\* ["id"] + feature_list when the input has an id column or feature_list
\* names id, and feature_list alone (no id column) otherwise; the file
\* written holds that frame.
C1_ColumnsIdOnlyWhenAvailable ==
    /\ Returned =>
         df.cols = IF HasCol(In, "id") \/ "id" \in Range(feature_list)
                   THEN <<"id">> \o feature_list
                   ELSE feature_list
    /\ (InPreprocess /\ pc = "done") => out.processed = File(df)

C1_Witness ==
    /\ InPreprocess /\ pc = "done"
    /\ ~HasCol(In, "id")
    /\ HasCol(In, "merch") /\ ~HasCol(In, "amount")
    /\ feature_list = <<"amount", "lat", "transaction_time", "zip">>
    /\ df.cols = feature_list

\* ---- C2
LacksOptional(f) == \E c \in SourceCols : ~HasCol(f, c)
PresentGeoParses(f) ==
    \A i \in DOMAIN GeoCols : HasCol(f, GeoCols[i]) => ~AsFloatRaises(f.data[GeoCols[i]])
LacksGeo(f) == \E i \in DOMAIN GeoCols : ~HasCol(f, GeoCols[i])

\* C2: a frame that lacks transaction_time or a coordinate column never
\* makes preprocess() raise (a run ends by raising only where main() fails
\* before it calls preprocess(): a failed import or a missing file); without transaction_time hour and dow are -1,
\* and without a coordinate column dist_km is the imputation default.
C2_MissingOptionalNeverAborts ==
    (InPreprocess /\ files.input.exists /\ LacksOptional(In) /\ PresentGeoParses(In)) =>
        /\ ~(pc = "raised" /\ err \notin {"ModuleNotFoundError", "FileNotFoundError"})
        /\ (AfterTime /\ ~HasCol(In, "transaction_time")) =>
              \A i \in 1..df.n : /\ df.data["hour"][i] = Whole(SentinelTime)
                                 /\ df.data["dow"][i] = Whole(SentinelTime)
        /\ (AfterImpute /\ LacksGeo(In) /\ HasCol(df, "dist_km")) =>
              \A i \in 1..df.n : df.data["dist_km"][i] = Whole(DefaultMedian)

\* ---- C3
\* The coerced cells of input column c (all missing when c is absent).
InputNumeric(c) ==
    [i \in 1..In.n |-> IF HasCol(In, c) THEN ToNumeric(In.data[c][i]) ELSE Null]

ValidRows(col) == {i \in DOMAIN col : ~IsNull(col[i])}

\* x has rank r among the valid values of col.
HasRank(col, x, r) ==
    /\ Cardinality({i \in ValidRows(col) : col[i].n < x}) < r
    /\ r <= Cardinality({i \in ValidRows(col) : col[i].n <= x})

\* m is the median of the valid values of col: the mean of the values of
\* the two middle ranks.
IsMedianOf(col, m) ==
    LET n == Cardinality(ValidRows(col))
    IN  \E a, b \in ValidRows(col) :
           /\ HasRank(col, col[a].n, (n + 1) \div 2)
           /\ HasRank(col, col[b].n, n \div 2 + 1)
           /\ 2 * m.n + m.h = col[a].n + col[b].n
           /\ m.h \in {0, 1}

\* Column c as it stands before the imputation: the time features and the
\* distance computed from the input's columns, and the coerced input column
\* for the others.
BeforeImpute(c) ==
    [i \in 1..In.n |->
        CASE c = "hour" -> HourOf(In.data["transaction_time"][i])
          [] c = "dow" -> DowOf(In.data["transaction_time"][i])
          [] c = "is_weekend" -> WeekendOf(DowOf(In.data["transaction_time"][i]))
          [] c = "dist_km" -> HaversineCell(In.data["lat"][i], In.data["lon"][i],
                                            In.data["merchant_lat"][i],
                                            In.data["merchant_lon"][i])
          [] OTHER -> InputNumeric(c)[i]]

FilledAsClaimed(c, i) ==
    LET col == BeforeImpute(c)
    IN  IF ~IsNull(col[i]) THEN df.data[c][i] = col[i]
        ELSE IF ValidRows(col) = {} THEN df.data[c][i] = Whole(0)
        ELSE IsMedianOf(col, df.data[c][i])

\* C3: after the imputation step no configured numeric column holds a null;
\* in each of the six columns a cell that was missing or unparseable holds
\* the median of the batch's valid values of that column, or 0 when there is
\* none (also when the column is absent from the input); valid cells keep
\* their value.
C3_NoNullInNumericColumns ==
    AfterImpute =>
        \A k \in DOMAIN NumericCols :
            LET c == NumericCols[k]
            IN  /\ pc \in {"fill_categorical", "drop_source", "ensure_features", "select"}
                      => HasCol(df, c)
                /\ HasCol(df, c) =>
                      \A i \in 1..df.n :
                          /\ IsNum(df.data[c][i])
                          /\ FilledAsClaimed(c, i)

\* A batch of four rows: amount has a gap and the valid values 10, 20, 25
\* (median 20, not their mean, least, greatest or first); population_city
\* has an unparseable cell, a gap and the valid values 1000 and 500 (median
\* 750); dist_km has a gap and the valid values 0, 20015 and 10008.
C3_Witness ==
    /\ InPreprocess /\ pc = "done"
    /\ df.n = 4
    /\ HasCol(In, "amount")
    /\ HasCol(df, "amount") /\ HasCol(df, "population_city") /\ HasCol(df, "dist_km")
    /\ IsNull(In.data["amount"][2])
    /\ df.data["amount"] = <<Whole(10), Whole(20), Whole(20), Whole(25)>>
    /\ ~ParsesAsNumber(In.data["population_city"][2])
    /\ IsNull(In.data["population_city"][3])
    /\ df.data["population_city"] = <<Whole(1000), Whole(750), Whole(750), Whole(500)>>
    /\ IsNull(In.data["lat"][3])
    /\ df.data["dist_km"] = <<Whole(0), Whole(20015), Whole(10008), Whole(10008)>>

\* ---- C4
\* C4: a categorical column absent from the input is "na" in every row; a
\* present one has "na" for every null cell and the cell's string form for
\* every other cell.
C4_CategoricalNullsBecomeNa ==
    AfterCategorical =>
        \A k \in DOMAIN CatCols :
            LET c == CatCols[k]
            IN  HasCol(df, c) =>
                  \A i \in 1..df.n :
                      IF ~HasCol(In, c) \/ IsNull(In.data[c][i])
                      THEN df.data[c][i] = Str("na")
                      ELSE df.data[c][i] = AsStr(In.data[c][i], IsFloatCol(In.data[c]), FALSE)

\* ---- C5
\* C5: when medians.json gives a reference median for a numeric column,
\* every missing cell of that column is filled with the artifact's value.
C5_ArtifactMedianUsed ==
    (AfterImpute /\ files.medians.exists) =>
        \A c \in DOMAIN files.medians.content :
            HasCol(df, c) =>
                \A i \in 1..df.n :
                    IsNull(InputNumeric(c)[i]) => df.data[c][i] = files.medians.content[c]

\* ---- C10
\* C10: every name of feature_list that is a column of the input (and is
\* not derived or imputed) holds the input's values row for row in the
\* output, the coordinate and timestamp columns included.
C10_PresentFeaturesPassThrough ==
    Returned =>
        \A k \in DOMAIN feature_list :
            LET c == feature_list[k]
            IN  (HasCol(In, c) /\ c \notin Range(NumericCols) \cup Range(CatCols)) =>
                    \A i \in 1..df.n : df.data[c][i] = In.data[c][i]

\* ---- C6
InPredict == prog = "predict"
\* Model loading and probability scoring have succeeded.
Scored == InPredict /\ proba.exists

\* No estimator of the model has feature importances, or the estimator the
\* code inspects has none.
NoImportanceCapability(m) ==
    \/ /\ ~m.named_steps.exists
       /\ ~m.fi.exists
    \/ /\ m.named_steps.exists
       /\ \A i \in DOMAIN m.named_steps.content : ~m.named_steps.content[i].est.fi.exists
    \/ ~FinalEstimator(m).exists
    \/ /\ FinalEstimator(m).exists
       /\ ~FinalEstimator(m).content.fi.exists

\* C6: in a run whose model loading and scoring succeeded, from the start
\* of the diagnostics on, however the run goes on or ends (an importance
\* extraction or a rendering that succeeds, is skipped, raises and is
\* swallowed, or ends the run with an exception), both submission CSVs are
\* written, with the run's ids, probabilities and labels; and a model
\* without importance capability gets no importances.json.
C6_DiagnosticsNeverBlockOutputs ==
    (Scored /\ pc \notin {"write_submission", "write_binary"}) =>
        /\ out.submission = File(Submission(ids, proba.content))
        /\ binary_pred.exists
        /\ out.binary = File(Submission(ids, binary_pred.content))
        /\ (pc # "importances" /\ NoImportanceCapability(model.content)) =>
              ~out.importances.exists

\* Both diagnostics raised and were swallowed; the run completed with the
\* two CSVs and neither diagnostic file.
C6_Witness ==
    /\ InPredict /\ pc = "done"
    /\ diag = {"importances", "plot"}
    /\ out.submission = File(Submission(ids, proba.content))
    /\ out.binary = File(Submission(ids, binary_pred.content))
    /\ ~out.importances.exists /\ ~out.plot.exists

\* ---- C7
\* The text holds a single float in [0, 1].
WellFormedThreshold(t) ==
    LET v == ParseFloat(Strip(t))
    IN  v.k = "num" /\ 0 <= v.num /\ v.num <= v.den

\* The threshold the claim prescribes.
ClaimedThreshold(file) ==
    IF file.exists /\ WellFormedThreshold(file.content)
    THEN ParseFloat(Strip(file.content))
    ELSE Decimal(1, 2)

\* C7: each binary label is 1 exactly when probability >= threshold, the
\* threshold being 0.5 when threshold.txt is absent or is not a single float
\* in [0, 1], and the file's value otherwise.
C7_LabelIsProbaAtLeastThreshold ==
    (InPredict /\ binary_pred.exists) =>
        /\ out.binary.content.target = binary_pred.content
        /\ \A i \in DOMAIN proba.content :
              binary_pred.content[i] =
                  IF AtLeast(proba.content[i], ClaimedThreshold(files.threshold))
                  THEN 1 ELSE 0

\* ---- C8
RequiredInputMissing ==
    \/ InPreprocess /\ (~files.input.exists \/ ~files.features.exists)
    \/ InPredict /\ (~files.processed.exists \/ ~files.features.exists
                     \/ ~files.model.exists)

\* C8: when a required input (data file, features.json, model) is missing,
\* the run ends by raising and no output file is ever written.
C8_MissingInputWritesNothing ==
    RequiredInputMissing =>
        /\ Written = {}
        /\ pc # "done"
        /\ pc # "raised" => ENABLED Next

C8_Witness ==
    /\ InPredict /\ pc = "raised" /\ err = "FileNotFoundError"
    /\ files.processed.exists /\ files.features.exists /\ ~files.model.exists
    /\ ids # <<>>
    /\ Written = {}

\* ---- C9
LastStep(steps) == steps[Len(steps)].est

\* pairs is the top of fi: at most 5 name-score pairs of distinct features,
\* descending by score, none left out that scores higher than one kept.
IsTopOf(pairs, fi, fl) ==
    /\ Len(pairs) = Min(5, Len(fi))
    /\ \E ix \in [DOMAIN pairs -> DOMAIN fi] :
          /\ \A i, j \in DOMAIN pairs : i # j => ix[i] # ix[j]
          /\ \A i \in DOMAIN pairs : pairs[i] = <<fl[ix[i]], fi[ix[i]]>>
          /\ \A i \in DOMAIN pairs, j \in DOMAIN fi :
                (\A k \in DOMAIN pairs : ix[k] # j) => fi[j] <= pairs[i][2]
    /\ \A i \in 1..(Len(pairs) - 1) : pairs[i][2] >= pairs[i + 1][2]

\* C9: for a pipeline model, importances.json is written exactly when the
\* last step has feature importances, and then holds that step's top 5.
C9_PipelineImportancesFromLastStep ==
    (InPredict /\ pc \in {"plot", "done"} /\ model.content.named_steps.exists) =>
        LET steps == model.content.named_steps.content
        IN  (steps # <<>> /\ (LastStep(steps).fi.exists =>
                                 Len(LastStep(steps).fi.content) = Len(feature_list))) =>
                /\ out.importances.exists <=> LastStep(steps).fi.exists
                /\ out.importances.exists =>
                      IsTopOf(out.importances.content, LastStep(steps).fi.content,
                              feature_list)

====
